---- MODULE Spec2Model ----
(***************************************************************************)
(* A model of the presentation agent: the deck orchestrator               *)
(* (PresentationAgent), the slide generator, the layout suggester, the    *)
(* chart generator, the data fetcher and the exporters it dispatches to.  *)
(*                                                                         *)
(* Encoding of Python values:                                              *)
(*   str        a sequence of one-character strings                        *)
(*   dict       a function whose domain is the set of keys present         *)
(*   list       a sequence                                                 *)
(*   Optional   <<>> for None, <<v>> for the value v                       *)
(*   a value that is not a dict where a dict is expected is the record     *)
(*   [py_str |-> text], so that isinstance(x, dict) can be decided         *)
(***************************************************************************)
EXTENDS Integers, Sequences, FiniteSets, TLC

VARIABLES
    theme,          \* PresentationAgent.theme
    slides,         \* PresentationAgent.slides
    metadata,       \* PresentationAgent.metadata
    cached_data,    \* DataFetcher.cached_data
    call,           \* the last call made on the agent: arguments and outcome
    created,        \* whether create_from_text has run
    last_sections,  \* the sections argument of the most recent create_from_text
    section,        \* the section text handed to _parse_section_to_slide
    parsed,         \* the list of slides _parse_section_to_slide returned for it
    probe,          \* the slide handed to suggest_layout
    suggested,      \* the layout names suggest_layout returned for it, in order
    chart_request,  \* the chart_type and theme handed to generate_chart
    charts,         \* the list of descriptors generate_chart returned for them
    advised,        \* the content, slide and layout name handed to the advisor
    advice          \* what each advisor operation returned for them, by name

vars == <<theme, slides, metadata, cached_data, call, created, last_sections,
          section, parsed, probe, suggested, chart_request, charts,
          advised, advice>>

agentVars == <<theme, slides, metadata, cached_data, call, created, last_sections>>
parseVars == <<section, parsed>>
probeVars == <<probe, suggested>>
chartVars == <<chart_request, charts>>
adviceVars == <<advised, advice>>

-----------------------------------------------------------------------------
(* Bounds of the model *)

MaxSections == 1
MaxLen == 5
MaxSuggest == 2

-----------------------------------------------------------------------------
(* Python built-ins used by the code *)

EmptyDict == [k \in {} |-> 0]
None == <<>>
Some(v) == <<v>>

NL == "\n"
\* the characters of the model's alphabet that str.strip() removes
Whitespace == {" ", NL}

LowerLetters == <<"a", "b", "c", "d", "e", "f", "g", "h", "i", "j", "k", "l", "m",
                  "n", "o", "p", "q", "r", "s", "t", "u", "v", "w", "x", "y", "z">>
UpperLetters == <<"A", "B", "C", "D", "E", "F", "G", "H", "I", "J", "K", "L", "M",
                  "N", "O", "P", "Q", "R", "S", "T", "U", "V", "W", "X", "Y", "Z">>

\* the upper-case letter of each lower-case letter
UpperOf ==
    [c \in {LowerLetters[i] : i \in 1..Len(LowerLetters)} |->
        UpperLetters[CHOOSE i \in 1..Len(LowerLetters) : LowerLetters[i] = c]]

upper_char(c) == IF c \in DOMAIN UpperOf THEN UpperOf[c] ELSE c

\* str.upper()
upper(s) == [i \in 1..Len(s) |-> upper_char(s[i])]

RECURSIVE lstrip(_)
lstrip(s) ==
    IF s = <<>> THEN s
    ELSE IF Head(s) \in Whitespace THEN lstrip(Tail(s)) ELSE s

RECURSIVE rstrip(_)
rstrip(s) ==
    IF s = <<>> THEN s
    ELSE IF s[Len(s)] \in Whitespace THEN rstrip(SubSeq(s, 1, Len(s) - 1)) ELSE s

\* str.strip()
strip(s) == rstrip(lstrip(s))

\* str.split('\n'): one piece more than there are separators
RECURSIVE split_lines(_)
split_lines(s) ==
    IF \A i \in 1..Len(s) : s[i] # NL THEN <<s>>
    ELSE LET i == CHOOSE j \in 1..Len(s) :
                      s[j] = NL /\ \A k \in 1..(j - 1) : s[k] # NL
         IN  <<SubSeq(s, 1, i - 1)>> \o split_lines(SubSeq(s, i + 1, Len(s)))

\* str.startswith(prefix) and str.endswith(suffix)
startswith(s, prefix) ==
    Len(s) >= Len(prefix) /\ SubSeq(s, 1, Len(prefix)) = prefix
endswith(s, suffix) ==
    Len(s) >= Len(suffix) /\ SubSeq(s, Len(s) - Len(suffix) + 1, Len(s)) = suffix

\* sep.join(list) with sep = '\n'
RECURSIVE join_lines(_)
join_lines(list) ==
    IF list = <<>> THEN <<>>
    ELSE IF Len(list) = 1 THEN list[1]
    ELSE list[1] \o <<NL>> \o join_lines(Tail(list))

\* d[k] = v on a dict
dict_set(d, k, v) == (k :> v) @@ d
\* isinstance(x, dict)
is_dict(x) == "py_str" \notin DOMAIN x
\* d.get(k, default)
dict_get(d, k, default) == IF k \in DOMAIN d THEN d[k] ELSE default

\* list[i] of Python: the 1-based position a Python index names, 0 when it
\* names none (IndexError)
py_index(list, i) ==
    IF 0 <= i /\ i < Len(list) THEN i + 1
    ELSE IF i < 0 /\ -i <= Len(list) THEN Len(list) + i + 1
    ELSE 0

-----------------------------------------------------------------------------
(* SlideGenerator *)

slide_templates ==
    [title      |-> [layout |-> "title_slide",   content_type |-> "text"],
     content    |-> [layout |-> "bullet_points", content_type |-> "text"],
     chart      |-> [layout |-> "chart_slide",   content_type |-> "visualization"],
     comparison |-> [layout |-> "two_column",    content_type |-> "text"]]

SUBHEADING == <<"A", "u", "t", "o", "-", "g", "e", "n", "e", "r", "a", "t", "e", "d",
                " ", "P", "r", "e", "s", "e", "n", "t", "a", "t", "i", "o", "n">>

\* the lines kept as they are, not trimmed
RECURSIVE extract_bullet_points_untrimmed(_)
extract_bullet_points_untrimmed(lines) ==
    IF lines = <<>> THEN <<>>
    ELSE LET line == Head(lines)
         IN  (IF line # <<>> /\ ~startswith(line, <<"#">>) THEN <<line>> ELSE <<>>)
             \o extract_bullet_points_untrimmed(Tail(lines))

\* the bullet points of the lines after the first: trimmed, non-empty, no '#'
RECURSIVE extract_bullet_points(_)
extract_bullet_points(lines) ==
    IF lines = <<>> THEN <<>>
    ELSE LET line == strip(Head(lines))
         IN  (IF line # <<>> /\ ~startswith(line, <<"#">>) THEN <<line>> ELSE <<>>)
             \o extract_bullet_points(Tail(lines))

\* the fallback with the section trimmed
fallback_bullets_trimmed(sec) == <<strip(sec)>>

\* what an empty bullet list is replaced by
fallback_bullets(sec) == <<sec>>

_parse_section_to_slide(sec, slide_id) ==
    LET lines == split_lines(strip(sec))
        title == strip(lines[1])
        bullet_points == extract_bullet_points(Tail(lines))
    IN  [id      |-> slide_id,
         title   |-> title,
         type    |-> "content",
         content |-> [heading       |-> title,
                      bullet_points |-> IF bullet_points # <<>>
                                        THEN bullet_points
                                        ELSE fallback_bullets(sec)],
         layout  |-> slide_templates["content"].layout]

\* the content slides numbered from 0, as enumerate(sections) would
generate_slides_from_text_ids_from_0(title, sections) ==
    LET title_slide ==
            [id      |-> 0,
             title   |-> title,
             type    |-> "title",
             content |-> [heading |-> title, subheading |-> SUBHEADING],
             layout  |-> slide_templates["title"].layout]
    IN  <<title_slide>> \o
        [i \in 1..Len(sections) |-> _parse_section_to_slide(sections[i], i - 1)]

generate_slides_from_text(title, sections) ==
    LET title_slide ==
            [id      |-> 0,
             title   |-> title,
             type    |-> "title",
             content |-> [heading |-> title, subheading |-> SUBHEADING],
             layout  |-> slide_templates["title"].layout]
    IN  <<title_slide>> \o
        [i \in 1..Len(sections) |-> _parse_section_to_slide(sections[i], i)]

NOTE_SLIDE == <<"S", "l", "i", "d", "e", ":", " ">>
NOTE_KEY == <<"K", "e", "y", " ", "p", "o", "i", "n", "t", "s", " ", "t", "o", " ",
              "d", "i", "s", "c", "u", "s", "s", ":">>
NOTE_BULLET == <<" ", " ", "-", " ">>
NOTE_CHART == <<"\n", "C", "h", "a", "r", "t", "/", "V", "i", "s", "u", "a", "l", "i",
                "z", "a", "t", "i", "o", "n", ":", " ", "P", "r", "e", "s", "e", "n",
                "t", " ", "a", "n", "d", " ", "e", "x", "p", "l", "a", "i", "n", " ",
                "t", "h", "e", " ", "d", "a", "t", "a", " ", "t", "r", "e", "n", "d",
                "s", ".">>

generate_speaker_notes(slide) ==
    LET content == dict_get(slide, "content", EmptyDict)
        n1 == IF "title" \in DOMAIN slide
              THEN <<NOTE_SLIDE \o slide.title \o <<NL>>>> ELSE <<>>
        n2 == IF is_dict(content) /\ "bullet_points" \in DOMAIN content
              THEN <<NOTE_KEY>> \o
                   [i \in 1..Len(content.bullet_points) |->
                        NOTE_BULLET \o content.bullet_points[i]]
              ELSE <<>>
        n3 == IF "chart" \in DOMAIN slide THEN <<NOTE_CHART>> ELSE <<>>
    IN  join_lines(n1 \o n2 \o n3)

-----------------------------------------------------------------------------
(* LayoutSuggester *)

layouts ==
    [title_slide    |-> [name     |-> "Title Slide",
                         elements |-> <<"title", "subtitle">>,
                         zones    |-> {"title", "subtitle"}],
     bullet_points  |-> [name     |-> "Bullet Points",
                         elements |-> <<"title", "bullet_points">>,
                         zones    |-> {"title", "content"}],
     chart_slide    |-> [name     |-> "Chart/Visualization",
                         elements |-> <<"title", "chart">>,
                         zones    |-> {"title", "chart"}],
     two_column     |-> [name     |-> "Two Column",
                         elements |-> <<"title", "left_column", "right_column">>,
                         zones    |-> {"title", "left", "right"}],
     image_and_text |-> [name     |-> "Image and Text",
                         elements |-> <<"title", "image", "text">>,
                         zones    |-> {"title", "image", "text"}],
     blank          |-> [name     |-> "Blank",
                         elements |-> <<>>,
                         zones    |-> {}]]

\* the template key returned where the layout name is meant
suggest_layout_template_key(slide) ==
    IF dict_get(slide, "type", "content") = "title" THEN "title"
    ELSE IF "chart" \in DOMAIN slide THEN "chart"
    ELSE "bullet_points"

\* the chart rule tried before the title rule
suggest_layout_chart_first(slide) ==
    IF "chart" \in DOMAIN slide THEN "chart_slide"
    ELSE IF dict_get(slide, "type", "content") = "title" THEN "title_slide"
    ELSE suggest_layout_template_key(slide)

suggest_layout(slide) ==
    LET slide_type == dict_get(slide, "type", "content")
        content == dict_get(slide, "content", EmptyDict)
    IN  IF slide_type = "title" THEN "title_slide"
        ELSE IF "chart" \in DOMAIN slide THEN "chart_slide"
        ELSE IF is_dict(content)
                /\ "left_column" \in DOMAIN content
                /\ "right_column" \in DOMAIN content THEN "two_column"
        ELSE IF is_dict(content)
                /\ "image" \in DOMAIN content
                /\ "text" \in DOMAIN content THEN "image_and_text"
        ELSE IF is_dict(content) /\ "bullet_points" \in DOMAIN content
             THEN "bullet_points"
        ELSE "bullet_points"

\* get_layout_details(layout_name): self.layouts.get(layout_name)
get_layout_details(layout_name) ==
    IF layout_name \in DOMAIN layouts THEN Some(layouts[layout_name]) ELSE None

\* any() where the code has all()
validate_content_for_layout_any(content, layout_name) ==
    IF layout_name \notin DOMAIN layouts THEN "False"
    ELSE LET required_elements == layouts[layout_name].elements
         IN  IF \E i \in 1..Len(required_elements) :
                    required_elements[i] \in DOMAIN content
             THEN "True" ELSE "False"

\* validate_content_for_layout(content, layout_name), content a dict
validate_content_for_layout(content, layout_name) ==
    IF layout_name \notin DOMAIN layouts THEN "False"
    ELSE LET required_elements == layouts[layout_name].elements
         IN  IF \A i \in 1..Len(required_elements) :
                    required_elements[i] \in DOMAIN content
             THEN "True" ELSE "False"

\* f"Add {element} to content"
recommendation(element) == <<"Add ", element, " to content">>

\* the loop of recommend_modifications over the required elements
RECURSIVE recommendations(_, _)
recommendations(required_elements, content) ==
    IF required_elements = <<>> THEN <<>>
    ELSE (IF Head(required_elements) \notin DOMAIN content
          THEN <<recommendation(Head(required_elements))>> ELSE <<>>)
         \o recommendations(Tail(required_elements), content)

\* recommend_modifications(slide, layout_name), the slide's content a dict
recommend_modifications(slide, layout_name) ==
    IF layout_name \notin DOMAIN layouts THEN <<>>
    ELSE recommendations(layouts[layout_name].elements,
                         dict_get(slide, "content", EmptyDict))

-----------------------------------------------------------------------------
(* ChartGenerator *)

\* the member names of the ChartType enum
ChartType ==
    {<<"B", "A", "R">>, <<"L", "I", "N", "E">>, <<"P", "I", "E">>,
     <<"S", "C", "A", "T", "T", "E", "R">>,
     <<"H", "I", "S", "T", "O", "G", "R", "A", "M">>,
     <<"B", "O", "X">>, <<"A", "R", "E", "A">>}

chart_styles ==
    [default  |-> [font_size |-> 12, dpi |-> 100, figsize |-> <<10, 6>>],
     business |-> [font_size |-> 14, dpi |-> 150, figsize |-> <<12, 7>>],
     minimal  |-> [font_size |-> 11, dpi |-> 100, figsize |-> <<10, 6>>]]

\* the style of an unknown theme a failure
generate_chart_strict_theme(chart_type, data, chart_theme) ==
    IF upper(chart_type) \notin ChartType \/ chart_theme \notin DOMAIN chart_styles
    THEN EmptyDict
    ELSE [type   |-> chart_type,
          title  |-> <<>>,
          data   |-> data,
          theme  |-> chart_theme,
          style  |-> chart_styles[chart_theme],
          kwargs |-> EmptyDict]

\* generate_chart(chart_type, data, theme) with title and kwargs left at
\* their defaults, as add_chart calls it
generate_chart(chart_type, data, chart_theme) ==
    IF upper(chart_type) \notin ChartType THEN EmptyDict
    ELSE [type   |-> chart_type,
          title  |-> <<>>,
          data   |-> data,
          theme  |-> chart_theme,
          style  |-> IF chart_theme \in DOMAIN chart_styles
                     THEN chart_styles[chart_theme]
                     ELSE chart_styles["default"],
          kwargs |-> EmptyDict]

-----------------------------------------------------------------------------
(* DataFetcher *)

HTTP == <<"h", "t", "t", "p", ":", "/", "/">>
HTTPS == <<"h", "t", "t", "p", "s", ":", "/", "/">>
DOT_CSV == <<".", "c", "s", "v">>
DOT_XLSX == <<".", "x", "l", "s", "x">>
DOT_XLS == <<".", "x", "l", "s">>
DOT_JSON == <<".", "j", "s", "o", "n">>

\* the kind of source fetch_data dispatches on, "" when unsupported
source_kind(source) ==
    IF startswith(source, HTTP) \/ startswith(source, HTTPS) THEN "api"
    ELSE IF endswith(source, DOT_CSV) THEN "csv"
    ELSE IF endswith(source, DOT_XLSX) \/ endswith(source, DOT_XLS) THEN "excel"
    ELSE IF endswith(source, DOT_JSON) THEN "json"
    ELSE ""

\* whether fetch_data(source) goes to the file system or the network
reads_source(cache, source) == source \notin DOMAIN cache /\ source_kind(source) # ""

\* fetch_data(source): the outcome and the cache afterwards.  `loads` is the
\* environment's part: whether the file or URL can be read and parsed; every
\* _fetch_from_* catches its exceptions and returns None.
fetch_data(cache, source, loads) ==
    IF source \in DOMAIN cache
    THEN [outcome |-> "cached", cache |-> cache]
    ELSE IF source_kind(source) = ""
    THEN [outcome |-> "unsupported", cache |-> cache]
    ELSE IF loads
    THEN [outcome |-> "loaded",
          cache   |-> dict_set(cache, source,
                               [source |-> source, type |-> source_kind(source)])]
    ELSE [outcome |-> "failed", cache |-> cache]

-----------------------------------------------------------------------------
(* Exporters *)

\* the members of the ExportFormat enum (name and value), the keys of
\* self.exporters
POWERPOINT ==
    [name  |-> <<"P", "O", "W", "E", "R", "P", "O", "I", "N", "T">>,
     value |-> <<"p", "o", "w", "e", "r", "p", "o", "i", "n", "t">>]
PDF ==
    [name  |-> <<"P", "D", "F">>,
     value |-> <<"p", "d", "f">>]
GOOGLE_SLIDES ==
    [name  |-> <<"G", "O", "O", "G", "L", "E", "_", "S", "L", "I", "D", "E", "S">>,
     value |-> <<"g", "o", "o", "g", "l", "e", "_", "s", "l", "i", "d", "e", "s">>]
HTML ==
    [name  |-> <<"H", "T", "M", "L">>,
     value |-> <<"h", "t", "m", "l">>]

ExportFormat == {POWERPOINT, PDF, GOOGLE_SLIDES, HTML}

\* PowerPointExporter.export: True when its try block completes, False when
\* an Exception is raised inside it (`except Exception`); an exception that
\* is not an Exception (KeyboardInterrupt, SystemExit) leaves the exporter.
\* `run` is the environment's part: how the body of the try block goes.
PowerPointExporter_export(run) ==
    IF run = "completes" THEN "True"
    ELSE IF run = "raises_Exception" THEN "False"
    ELSE "raise"

\* the PDF, Google Slides and HTML exporters: a boolean, never an exception
OtherExporter_export(run) == IF run = "completes" THEN "True" ELSE "False"

\* the ways the body of an exporter can go
RendererRuns(format_enum) ==
    IF format_enum = POWERPOINT
    THEN {"completes", "raises_Exception", "raises_BaseException"}
    ELSE {"completes", "raises_Exception"}

exporter_export(format_enum, run) ==
    IF format_enum = POWERPOINT
    THEN PowerPointExporter_export(run)
    ELSE OtherExporter_export(run)

-----------------------------------------------------------------------------
(* The inputs the calls are made with *)

Themes == {"business"}

Titles == {<<"Q", "1">>, <<"P", "l", "a", "n">>}

\* a title line with two bullet lines, and a heading-only section
SectionPool ==
    {<<"R", "\n", "U", " ", "p", "\n", " ", "N">>,
     <<"#", " ", "h">>}

SectionLists == UNION {[1..n -> SectionPool] : n \in 0..MaxSections}

\* no data source, or a path whose extension fetch_data does not support
DataSources == {None, Some(<<"d", ".", "t", "x", "t">>)}

ChartTypeNames == {<<"P", "I", "E">>, <<"d", "o", "n", "u", "t">>}

ChartData == {None}

SlideIndexes == (0 - MaxSections - 2)..(MaxSections + 1)

FormatNames ==
    {<<"p", "o", "w", "e", "r", "p", "o", "i", "n", "t">>,
     <<"P", "D", "F">>,
     <<"G", "o", "o", "g", "l", "e", "_", "S", "l", "i", "d", "e", "s">>,
     <<"h", "t", "m", "l">>,
     <<"p", "p", "t", "x">>}

NoCall == [op |-> "none", ret |-> "none", raised |-> "none"]

-----------------------------------------------------------------------------
(* PresentationAgent *)

\* _generate_speaker_notes: every slide gets its notes
_generate_speaker_notes(ss) ==
    [i \in 1..Len(ss) |-> dict_set(ss[i], "speaker_notes", generate_speaker_notes(ss[i]))]

\* every slide given the layout get_layout_by_content_type has for the
\* content type of its template ('text' for title and content slides)
assign_layouts_by_content_type(ss) ==
    [i \in 1..Len(ss) |-> dict_set(ss[i], "layout", "bullet_points")]

\* the "Suggest layouts" loop of create_from_text
assign_layouts(ss) ==
    [i \in 1..Len(ss) |-> dict_set(ss[i], "layout", suggest_layout(ss[i]))]

\* `if data_source:` is false for None and for the empty string
truthy(data_source) == data_source # None /\ data_source[1] # <<>>

\* the fetched data merged into the slides: a slide is marked when data came
create_from_text_call_merging_data(title, sections, data_source, speaker_notes, loads) ==
    LET generated == generate_slides_from_text(title, sections)
        fetched == IF truthy(data_source)
                   THEN fetch_data(cached_data, data_source[1], loads)
                   ELSE [outcome |-> "none", cache |-> cached_data]
        merged == IF fetched.outcome \in {"loaded", "cached"}
                  THEN [i \in 1..Len(generated) |->
                            dict_set(generated[i], "data_source", data_source[1])]
                  ELSE generated
        laid == assign_layouts(merged)
    IN  /\ metadata' = dict_set(metadata, "title", title)
        /\ cached_data' = fetched.cache
        /\ slides' = IF speaker_notes THEN _generate_speaker_notes(laid) ELSE laid
        /\ created' = TRUE
        /\ last_sections' = sections
        /\ call' = [op |-> "create_from_text", title |-> title,
                    sections |-> sections, data_source |-> data_source,
                    speaker_notes |-> speaker_notes, fetch |-> fetched.outcome,
                    ret |-> "self", raised |-> "none"]
        /\ UNCHANGED <<theme, parseVars, probeVars, chartVars, adviceVars>>

\* create_from_text(title, sections, data_source, speaker_notes); `loads` is
\* whether the data source can be read, when fetch_data reads it
create_from_text_call(title, sections, data_source, speaker_notes, loads) ==
    LET generated == generate_slides_from_text(title, sections)
        fetched == IF truthy(data_source)
                   THEN fetch_data(cached_data, data_source[1], loads)
                   ELSE [outcome |-> "none", cache |-> cached_data]
        laid == assign_layouts(generated)
    IN  /\ metadata' = dict_set(metadata, "title", title)
        /\ cached_data' = fetched.cache
        /\ slides' = IF speaker_notes THEN _generate_speaker_notes(laid) ELSE laid
        /\ created' = TRUE
        /\ last_sections' = sections
        /\ call' = [op |-> "create_from_text", title |-> title,
                    sections |-> sections, data_source |-> data_source,
                    speaker_notes |-> speaker_notes, fetch |-> fetched.outcome,
                    ret |-> "self", raised |-> "none"]
        /\ UNCHANGED <<theme, parseVars, probeVars, chartVars, adviceVars>>

create_from_text ==
    \E title \in Titles, sections \in SectionLists, data_source \in DataSources,
       speaker_notes \in BOOLEAN :
        \E loads \in IF truthy(data_source) /\ reads_source(cached_data, data_source[1])
                     THEN BOOLEAN ELSE {FALSE} :
            create_from_text_call(title, sections, data_source, speaker_notes, loads)

\* the bounds check off by one
index_out_of_range_gt(slide_index, n) == slide_index > n

\* the bounds check of add_chart
index_out_of_range(slide_index, n) == slide_index >= n

\* the chart attached and the layout suggested again
attach_chart_relayout(ss, pos, chart) ==
    [ss EXCEPT ![pos] =
        dict_set(dict_set(@, "chart", chart), "layout",
                 suggest_layout(dict_set(@, "chart", chart)))]

\* the slides after self.slides[slide_index]['chart'] = chart, for an index
\* that names a slide
attach_chart(ss, pos, chart) == [ss EXCEPT ![pos] = dict_set(@, "chart", chart)]

\* add_chart(slide_index, chart_type, data)
add_chart_call(slide_index, chart_type, data) ==
    LET args == [op |-> "add_chart", slide_index |-> slide_index,
                 chart_type |-> chart_type, data |-> data]
        chart == generate_chart(chart_type, data, theme)
        pos == py_index(slides, slide_index)
    IN  /\ IF index_out_of_range(slide_index, Len(slides))
           THEN \* logged as an error, nothing else happens
                /\ slides' = slides
                /\ call' = args @@ [ret |-> "self", raised |-> "none",
                                    logged |-> "error"]
           ELSE IF pos = 0
           THEN \* self.slides[slide_index] raises IndexError
                /\ slides' = slides
                /\ call' = args @@ [ret |-> "none", raised |-> "IndexError",
                                    logged |-> "none"]
           ELSE /\ slides' = attach_chart(slides, pos, chart)
                /\ call' = args @@ [ret |-> "self", raised |-> "none",
                                    logged |-> "info"]
        /\ UNCHANGED <<theme, metadata, cached_data, created, last_sections,
                       parseVars, probeVars,
                       chartVars, adviceVars>>

add_chart ==
    \E slide_index \in SlideIndexes, chart_type \in ChartTypeNames, data \in ChartData :
        add_chart_call(slide_index, chart_type, data)

\* PresentationAgent.generate_speaker_notes
agent_generate_speaker_notes ==
    /\ slides' = _generate_speaker_notes(slides)
    /\ call' = [op |-> "generate_speaker_notes", ret |-> "self", raised |-> "none"]
    /\ UNCHANGED <<theme, metadata, cached_data, created, last_sections,
                   parseVars, probeVars, chartVars, adviceVars>>

\* the lookup without .upper()
lookup_format_case_sensitive(format_type) ==
    IF \E m \in ExportFormat : m.name = format_type
    THEN Some(CHOOSE m \in ExportFormat : m.name = format_type)
    ELSE None

\* ExportFormat[format_type.upper()]: the member of that name, or None for
\* the KeyError
lookup_format(format_type) ==
    IF \E m \in ExportFormat : m.name = upper(format_type)
    THEN Some(CHOOSE m \in ExportFormat : m.name = upper(format_type))
    ELSE None

\* export(format_type, output_path); `run` is how the body of the exporter
\* goes.  exporter.export(...) is called outside any try block: what it
\* raises leaves export.
export_call(format_type, run) ==
    LET args == [op |-> "export", format_type |-> format_type, run |-> run]
        format_enum == lookup_format(format_type)
        success == exporter_export(format_enum[1], run)
    IN  /\ IF format_enum = None
           THEN \* KeyError caught: logged, False
                call' = args @@ [ret |-> "False", raised |-> "none",
                                 rendered |-> <<>>]
           ELSE IF success = "raise"
           THEN call' = args @@ [ret |-> "none", raised |-> "BaseException",
                                 rendered |-> <<format_enum[1]>>]
           ELSE \* self.exporters has an exporter for every member
                call' = args @@ [ret |-> success, raised |-> "none",
                                 rendered |-> <<format_enum[1]>>]
        /\ UNCHANGED <<theme, slides, metadata, cached_data, created,
                       last_sections, parseVars, probeVars,
                       chartVars, adviceVars>>

export ==
    \E format_type \in FormatNames :
        \E run \in IF lookup_format(format_type) # None
                    THEN RendererRuns(lookup_format(format_type)[1])
                    ELSE {"none"} :
            export_call(format_type, run)

\* PresentationAgent.__init__
AgentInit ==
    /\ theme \in Themes
    /\ slides = <<>>
    /\ metadata = EmptyDict
    /\ cached_data = EmptyDict
    /\ call = NoCall
    /\ created = FALSE
    /\ last_sections = <<>>

\* no chart and no advice asked for
NoRequests ==
    /\ chart_request = EmptyDict
    /\ charts = <<>>
    /\ advised = EmptyDict
    /\ advice = EmptyDict

Init ==
    /\ AgentInit
    /\ section = <<>>
    /\ parsed = <<>>
    /\ probe = EmptyDict
    /\ suggested = <<>>
    /\ NoRequests

Next ==
    \/ create_from_text
    \/ add_chart
    \/ agent_generate_speaker_notes
    \/ export

Spec == Init /\ [][Next]_vars

-----------------------------------------------------------------------------
(* create_from_text with data sources of every kind *)

\* no source, the empty string, an unsupported extension, a CSV file, a URL
FetchedSources ==
    {None,
     Some(<<>>),
     Some(<<"d", ".", "t", "x", "t">>),
     Some(<<"d", ".", "c", "s", "v">>),
     Some(<<"h", "t", "t", "p", ":", "/", "/", "h">>)}

create_from_text_fetching ==
    \E title \in Titles, sections \in SectionLists, data_source \in FetchedSources,
       speaker_notes \in BOOLEAN :
        \E loads \in IF truthy(data_source) /\ reads_source(cached_data, data_source[1])
                     THEN BOOLEAN ELSE {FALSE} :
            create_from_text_call(title, sections, data_source, speaker_notes, loads)

NextData == create_from_text_fetching

SpecData == Init /\ [][NextData]_vars

-----------------------------------------------------------------------------
(* _parse_section_to_slide on every section text up to MaxLen characters *)

Alphabet == {"a", "b", "#", " ", NL}

SectionTexts == UNION {[1..n -> Alphabet] : n \in 0..MaxLen}

SlideIds == 1..2

parse_section ==
    /\ parsed = <<>>
    /\ \E slide_id \in SlideIds :
           parsed' = <<_parse_section_to_slide(section, slide_id)>>
    /\ UNCHANGED <<agentVars, section, probeVars, chartVars, adviceVars>>

InitParse ==
    /\ AgentInit
    /\ section \in SectionTexts
    /\ parsed = <<>>
    /\ probe = EmptyDict
    /\ suggested = <<>>
    /\ NoRequests

NextParse == parse_section

SpecParse == InitParse /\ [][NextParse]_vars

-----------------------------------------------------------------------------
(* suggest_layout on slides of every shape *)

ProbeTypes == {"title", "content", "chart", "comparison"}

ContentKeys ==
    {"heading", "bullet_points", "left_column", "right_column", "image", "text"}

content_value(key) ==
    IF key = "bullet_points" THEN <<<<"b">>>> ELSE <<"x">>

\* dict contents with any of the keys, and a content that is a string
ProbeContents ==
    {[k \in K |-> content_value(k)] : K \in SUBSET ContentKeys}
        \cup {[py_str |-> <<"r", "a", "w">>]}

ProbeCharts == {EmptyDict, generate_chart(<<"b", "a", "r">>, None, "default")}

\* the slide with the fields of `base` and, where given, type, content, chart
probe_slide(base, type, content, chart) ==
    LET s1 == IF type = None THEN base ELSE dict_set(base, "type", type[1])
        s2 == IF content = None THEN s1 ELSE dict_set(s1, "content", content[1])
    IN  IF chart = None THEN s2 ELSE dict_set(s2, "chart", chart[1])

ProbeSlides ==
    {probe_slide([id |-> 1, title |-> <<"t">>], type, content, chart) :
        type \in {None} \cup {Some(t) : t \in ProbeTypes},
        content \in {None} \cup {Some(c) : c \in ProbeContents},
        chart \in {None} \cup {Some(c) : c \in ProbeCharts}}

suggest ==
    /\ Len(suggested) < MaxSuggest
    /\ suggested' = Append(suggested, suggest_layout(probe))
    /\ UNCHANGED <<agentVars, parseVars, probe, chartVars, adviceVars>>

InitLayout ==
    /\ AgentInit
    /\ section = <<>>
    /\ parsed = <<>>
    /\ probe \in ProbeSlides
    /\ suggested = <<>>
    /\ NoRequests

NextLayout == suggest

SpecLayout == InitLayout /\ [][NextLayout]_vars

-----------------------------------------------------------------------------
(* generate_chart on chart-type names and themes of every kind *)

\* the seven type names in lower, upper and mixed case, and names that are
\* none of them
ChartRequestTypes ==
    {<<"b", "a", "r">>, <<"B", "A", "R">>, <<"B", "a", "r">>,
     <<"l", "i", "n", "e">>, <<"L", "I", "N", "E">>, <<"l", "i", "N", "e">>,
     <<"p", "i", "e">>, <<"P", "I", "E">>, <<"p", "I", "e">>,
     <<"s", "c", "a", "t", "t", "e", "r">>, <<"S", "C", "A", "T", "T", "E", "R">>,
     <<"S", "c", "a", "t", "t", "e", "r">>,
     <<"h", "i", "s", "t", "o", "g", "r", "a", "m">>,
     <<"H", "I", "S", "T", "O", "G", "R", "A", "M">>,
     <<"h", "i", "s", "t", "o", "G", "R", "A", "M">>,
     <<"b", "o", "x">>, <<"B", "O", "X">>, <<"b", "o", "X">>,
     <<"a", "r", "e", "a">>, <<"A", "R", "E", "A">>, <<"A", "r", "e", "A">>,
     <<>>, <<"d", "o", "n", "u", "t">>, <<"p", "i">>, <<"p", "i", "e", "s">>,
     <<"b", "a", "r", " ">>, <<"L", "I", "N", "E", "S">>}

\* the keys of the style table and names that are not keys of it
ChartRequestThemes == {"default", "business", "minimal", "dark", "", "Business"}

build_chart ==
    /\ charts = <<>>
    /\ charts' = <<generate_chart(chart_request.chart_type, None, chart_request.theme)>>
    /\ UNCHANGED <<agentVars, parseVars, probeVars, chart_request, adviceVars>>

InitChart ==
    /\ AgentInit
    /\ section = <<>>
    /\ parsed = <<>>
    /\ probe = EmptyDict
    /\ suggested = <<>>
    /\ chart_request \in [chart_type : ChartRequestTypes, theme : ChartRequestThemes]
    /\ charts = <<>>
    /\ advised = EmptyDict
    /\ advice = EmptyDict

NextChart == build_chart

SpecChart == InitChart /\ [][NextChart]_vars

-----------------------------------------------------------------------------
(* The advisor's validation and recommendations on contents of every shape *)

\* the elements the catalog's layouts ask for, and a key none asks for
AdvisedKeys ==
    {"title", "subtitle", "bullet_points", "chart", "left_column",
     "right_column", "image", "text", "heading"}

AdvisedContents == {[k \in K |-> content_value(k)] : K \in SUBSET AdvisedKeys}

\* the catalog's names, a display name and the empty name
AdvisedLayoutNames == DOMAIN layouts \cup {"Title Slide", ""}

\* a content with the slide that carries it, and the slide without content
\* with the empty content
AdvisedPairs ==
    {[content |-> c, slide |-> [id |-> 1, title |-> <<"t">>, content |-> c]] :
        c \in AdvisedContents}
        \cup {[content |-> EmptyDict, slide |-> [id |-> 1, title |-> <<"t">>]]}

validate ==
    /\ "validate" \notin DOMAIN advice
    /\ advice' = dict_set(advice, "validate",
                          validate_content_for_layout(advised.content,
                                                      advised.layout_name))
    /\ UNCHANGED <<agentVars, parseVars, probeVars, chartVars, advised>>

recommend ==
    /\ "recommend" \notin DOMAIN advice
    /\ advice' = dict_set(advice, "recommend",
                          recommend_modifications(advised.slide, advised.layout_name))
    /\ UNCHANGED <<agentVars, parseVars, probeVars, chartVars, advised>>

details ==
    /\ "details" \notin DOMAIN advice
    /\ advice' = dict_set(advice, "details", get_layout_details(advised.layout_name))
    /\ UNCHANGED <<agentVars, parseVars, probeVars, chartVars, advised>>

InitAdvice ==
    /\ AgentInit
    /\ section = <<>>
    /\ parsed = <<>>
    /\ probe = EmptyDict
    /\ suggested = <<>>
    /\ chart_request = EmptyDict
    /\ charts = <<>>
    /\ \E pair \in AdvisedPairs, layout_name \in AdvisedLayoutNames :
           advised = [content |-> pair.content, slide |-> pair.slide,
                      layout_name |-> layout_name]
    /\ advice = EmptyDict

NextAdvice ==
    \/ validate
    \/ recommend
    \/ details

SpecAdvice == InitAdvice /\ [][NextAdvice]_vars

-----------------------------------------------------------------------------
(* Properties of _parse_section_to_slide, checked under SpecParse *)

\* the positions of the line breaks of a text, and its lines
BreaksOf(text) == {i \in 1..Len(text) : text[i] = NL}
LineStart(text, k) ==
    IF k = 1 THEN 1
    ELSE 1 + CHOOSE i \in BreaksOf(text) :
                 Cardinality({j \in BreaksOf(text) : j < i}) = k - 2
LineEnd(text, k) ==
    IF k = Cardinality(BreaksOf(text)) + 1 THEN Len(text)
    ELSE (CHOOSE i \in BreaksOf(text) :
              Cardinality({j \in BreaksOf(text) : j < i}) = k - 1) - 1
LinesOf(text) ==
    [k \in 1..(Cardinality(BreaksOf(text)) + 1) |->
        SubSeq(text, LineStart(text, k), LineEnd(text, k))]

\* a line without the blanks around it
Trimmed(line) ==
    LET inked == {i \in 1..Len(line) : line[i] # " "}
    IN  IF inked = {} THEN <<>>
        ELSE SubSeq(line, CHOOSE i \in inked : \A j \in inked : i <= j,
                          CHOOSE i \in inked : \A j \in inked : i >= j)

TrimmedLinesOf(text) == [k \in DOMAIN LinesOf(text) |-> Trimmed(LinesOf(text)[k])]

HasTitleLine(text) == \E k \in DOMAIN TrimmedLinesOf(text) : TrimmedLinesOf(text)[k] # <<>>

\* the position of the first non-empty line
TitleLine(text) ==
    CHOOSE k \in DOMAIN TrimmedLinesOf(text) :
        /\ TrimmedLinesOf(text)[k] # <<>>
        /\ \A j \in 1..(k - 1) : TrimmedLinesOf(text)[j] = <<>>

IsBulletLine(line) == line # <<>> /\ line[1] # "#"

\* the trimmed lines after the title line that are neither blank nor headings
BulletLines(text) ==
    IF ~HasTitleLine(text) THEN <<>>
    ELSE SelectSeq(SubSeq(TrimmedLinesOf(text), TitleLine(text) + 1,
                          Len(TrimmedLinesOf(text))),
                   IsBulletLine)

\* C2: when every line after the title line is blank or starts with '#'
\* (no line after it, and an empty or blank section, included), the bullet
\* list is the one-element list holding the section text as given; and the
\* bullet list of a content slide is never empty.
C2_FallbackLaw ==
    parsed # <<>> =>
        /\ BulletLines(section) = <<>>
               => parsed[1].content.bullet_points = <<section>>
        /\ parsed[1].content.bullet_points # <<>>

\* a section with a heading line after its title line and a trailing blank,
\* parsed
C2_Witness ==
    /\ parsed # <<>>
    /\ Len(section) = MaxLen
    /\ section[Len(section)] = " "
    /\ \E k \in 2..Len(LinesOf(section)) : Trimmed(LinesOf(section)[k]) = <<"#">>
    /\ BulletLines(section) = <<>>
    /\ parsed[1].content.bullet_points = <<section>>

\* a blank section, parsed
C2_WitnessBlank ==
    /\ parsed # <<>>
    /\ section = <<" ", NL>>
    /\ parsed[1].content.bullet_points = <<section>>

\* C3: the title and the heading of the content slide are the first
\* non-empty line of the section, trimmed; and when a later line is neither
\* blank nor a '#' line, the bullet points are exactly those later lines,
\* trimmed, in their order.
C3_TitleAndBullets ==
    (parsed # <<>> /\ HasTitleLine(section)) =>
        /\ parsed[1].title = TrimmedLinesOf(section)[TitleLine(section)]
        /\ parsed[1].content.heading = parsed[1].title
        /\ BulletLines(section) # <<>>
               => parsed[1].content.bullet_points = BulletLines(section)

\* a section of a title line and two different bullet lines, parsed
C3_Witness ==
    /\ parsed # <<>>
    /\ HasTitleLine(section)
    /\ Len(BulletLines(section)) = 2
    /\ BulletLines(section)[1] # BulletLines(section)[2]
    /\ parsed[1].content.bullet_points = BulletLines(section)

\* a section that starts with a blank line and has a padded bullet, parsed
C3_WitnessLeadingBlank ==
    /\ parsed # <<>>
    /\ section = <<NL, "a", NL, " ", "b">>
    /\ parsed[1].title = <<"a">>
    /\ parsed[1].content.bullet_points = <<<<"b">>>>

-----------------------------------------------------------------------------
(* Properties of suggest_layout, checked under SpecLayout *)

\* the rule table: the first rule that matches gives the layout
HasKeys(slide, keys) ==
    /\ "content" \in DOMAIN slide
    /\ "py_str" \notin DOMAIN slide.content
    /\ keys \subseteq DOMAIN slide.content

RuleTable(slide) ==
    <<[matches |-> "type" \in DOMAIN slide /\ slide.type = "title",
       layout  |-> "title_slide"],
      [matches |-> "chart" \in DOMAIN slide,
       layout  |-> "chart_slide"],
      [matches |-> HasKeys(slide, {"left_column", "right_column"}),
       layout  |-> "two_column"],
      [matches |-> HasKeys(slide, {"image", "text"}),
       layout  |-> "image_and_text"],
      [matches |-> TRUE,
       layout  |-> "bullet_points"]>>

FirstMatch(rules) ==
    rules[CHOOSE i \in 1..Len(rules) :
              rules[i].matches /\ \A j \in 1..(i - 1) : ~rules[j].matches].layout

\* C4: every call of suggest_layout returns what the rule table gives for
\* the slide's type, chart and content keys, the title rule first, and
\* leaves the slide as it was; so a second call returns the same name.
C4_RuleTable ==
    [][suggested' # suggested
        => /\ probe' = probe
           /\ suggested' = Append(suggested, FirstMatch(RuleTable(probe)))]_vars

\* a title slide with a chart and both columns, asked twice
C4_Witness ==
    /\ Len(suggested) = 2
    /\ "type" \in DOMAIN probe
    /\ probe.type = "title"
    /\ "chart" \in DOMAIN probe
    /\ HasKeys(probe, {"left_column", "right_column", "image", "text"})
    /\ suggested = <<"title_slide", "title_slide">>

\* a chart-free slide with an image and a text, asked twice
C4_WitnessImage ==
    /\ Len(suggested) = 2
    /\ "type" \notin DOMAIN probe
    /\ "chart" \notin DOMAIN probe
    /\ HasKeys(probe, {"image", "text", "left_column"})
    /\ suggested = <<"image_and_text", "image_and_text">>

-----------------------------------------------------------------------------
(* Properties of the orchestrator, checked under Spec *)

\* C1: the deck is empty before the first create_from_text; afterwards it
\* has one slide more than the most recent create_from_text had sections,
\* the slide at position k has id k, slide 0 is of type 'title' and every
\* other slide of type 'content'.
C1_DeckShape ==
    IF ~created THEN slides = <<>>
    ELSE /\ Len(slides) = Len(last_sections) + 1
         /\ \A k \in 1..Len(slides) : slides[k].id = k - 1
         /\ slides[1].type = "title"
         /\ \A k \in 2..Len(slides) : slides[k].type = "content"

\* a deck of two slides, charted and annotated since its creation
C1_Witness ==
    /\ created
    /\ Len(slides) = 2
    /\ "chart" \in DOMAIN slides[2]
    /\ "speaker_notes" \in DOMAIN slides[1]
    /\ call.op = "export"

LayoutCatalogNames ==
    {"title_slide", "bullet_points", "chart_slide", "two_column",
     "image_and_text", "blank"}

\* C5: the layout of every slide of the deck is one of the six names of the
\* layout catalog.
C5_LayoutInCatalog ==
    \A k \in 1..Len(slides) :
        slides[k].layout \in LayoutCatalogNames /\ slides[k].layout \in DOMAIN layouts

\* a deck whose content slide carries a chart and its layout
C5_Witness ==
    /\ Len(slides) = 2
    /\ "chart" \in DOMAIN slides[2]
    /\ slides[1].layout = "title_slide"
    /\ slides[2].layout = "bullet_points"

\* C6: add_chart with slide_index >= len(slides) changes neither the slides
\* nor the metadata and raises nothing.
C6_IndexAtOrAboveLenIsNoop ==
    [][(call'.op = "add_chart" /\ call'.slide_index >= Len(slides))
        => (slides' = slides /\ metadata' = metadata /\ call'.raised = "none")]_vars

\* add_chart was just called on a deck of two slides with index 2
C6_Witness ==
    /\ call.op = "add_chart"
    /\ Len(slides) = 2
    /\ call.slide_index = Len(slides)
    /\ call.raised = "none"

\* C7: add_chart with any index outside 0 .. len(slides)-1, negative ones
\* included, raises nothing and changes no slide.
C7_AnyIndexOutsideRangeIsNoop ==
    [][(/\ call'.op = "add_chart"
        /\ (call'.slide_index < 0 \/ call'.slide_index >= Len(slides)))
        => (call'.raised = "none" /\ slides' = slides)]_vars

\* C8: add_chart with an index in range and an unknown chart type changes no
\* slide: the targeted slide gains no 'chart' field.
C8_UnknownChartTypeIsNoop ==
    [][(/\ call'.op = "add_chart"
        /\ 0 <= call'.slide_index /\ call'.slide_index < Len(slides)
        /\ upper(call'.chart_type) \notin ChartType)
        => slides' = slides]_vars

\* C9: add_chart with an index in range and a known chart type changes the
\* 'chart' field of the targeted slide and nothing else: not its other
\* fields (its layout among them), not another slide, not the slide count,
\* not the metadata.
C9_AddChartFrame ==
    [][(/\ call'.op = "add_chart"
        /\ 0 <= call'.slide_index /\ call'.slide_index < Len(slides)
        /\ upper(call'.chart_type) \in ChartType)
        => LET i == call'.slide_index + 1
           IN  /\ call'.raised = "none"
               /\ Len(slides') = Len(slides)
               /\ metadata' = metadata
               /\ \A k \in 1..Len(slides) : k # i => slides'[k] = slides[k]
               /\ DOMAIN slides'[i] = DOMAIN slides[i] \cup {"chart"}
               /\ \A key \in DOMAIN slides[i] \ {"chart"} :
                      slides'[i][key] = slides[i][key]
               /\ slides'[i].chart # EmptyDict]_vars

\* a content slide just given a chart: it keeps the layout bullet_points
\* although suggest_layout now answers chart_slide for it
C9_Witness ==
    /\ call.op = "add_chart"
    /\ call.slide_index = 1
    /\ Len(slides) = 2
    /\ upper(call.chart_type) \in ChartType
    /\ "chart" \in DOMAIN slides[2]
    /\ slides[2].layout = "bullet_points"
    /\ suggest_layout(slides[2]) = "chart_slide"
    /\ "speaker_notes" \in DOMAIN slides[1]

LowerOf ==
    [c \in {UpperLetters[i] : i \in 1..Len(UpperLetters)} |->
        LowerLetters[CHOOSE i \in 1..Len(UpperLetters) : UpperLetters[i] = c]]

lower_char(c) == IF c \in DOMAIN LowerOf THEN LowerOf[c] ELSE c

lower(s) == [i \in 1..Len(s) |-> lower_char(s[i])]

KnownFormatNames ==
    {<<"p", "o", "w", "e", "r", "p", "o", "i", "n", "t">>,
     <<"p", "d", "f">>,
     <<"g", "o", "o", "g", "l", "e", "_", "s", "l", "i", "d", "e", "s">>,
     <<"h", "t", "m", "l">>}

\* C10: export changes neither slides nor metadata; with a name that is,
\* letter case aside, none of powerpoint, pdf, google_slides, html it returns
\* False, raises nothing and invokes no renderer; with one of them it invokes
\* the renderer of that format once and returns the boolean the renderer
\* returned: True when the renderer's body completed, False when it failed
\* inside the renderer.
C10_ExportDispatch ==
    [][call'.op = "export"
        => /\ slides' = slides
           /\ metadata' = metadata
           /\ IF lower(call'.format_type) \in KnownFormatNames
              THEN /\ Len(call'.rendered) = 1
                   /\ call'.rendered[1].value = lower(call'.format_type)
                   /\ call'.run = "completes"
                          => (call'.ret = "True" /\ call'.raised = "none")
                   /\ call'.run = "raises_Exception"
                          => (call'.ret = "False" /\ call'.raised = "none")
              ELSE /\ call'.rendered = <<>>
                   /\ call'.raised = "none"
                   /\ call'.ret = "False"]_vars

\* an export under a mixed-case name whose renderer failed, on a deck
C10_Witness ==
    /\ call.op = "export"
    /\ call.run = "raises_Exception"
    /\ call.format_type = <<"G", "o", "o", "g", "l", "e", "_", "S", "l", "i", "d", "e", "s">>
    /\ call.rendered = <<GOOGLE_SLIDES>>
    /\ call.ret = "False"
    /\ Len(slides) = 2

\* an export under an unknown name, on a deck
C10_WitnessUnknown ==
    /\ call.op = "export"
    /\ call.format_type = <<"p", "p", "t", "x">>
    /\ call.rendered = <<>>
    /\ Len(slides) = 2

\* C11: when the renderer export selected fails, by returning False or by
\* raising into export, export returns False, no exception leaves it, and
\* slides and metadata are unchanged.
C11_RendererFailureAbsorbed ==
    [][(/\ call'.op = "export"
        /\ call'.rendered # <<>>
        /\ call'.run # "completes")
        => /\ call'.ret = "False"
           /\ call'.raised = "none"
           /\ slides' = slides
           /\ metadata' = metadata]_vars

\* add_chart as recorded in `c` attached a descriptor to a slide in range
AddChartSucceeded(c) ==
    /\ c.op = "add_chart"
    /\ c.raised = "none"
    /\ c.logged = "info"
    /\ c.slide_index >= 0
    /\ upper(c.chart_type) \in ChartType

\* add_chart as recorded in `c` was given an index at or above the slide
\* count n, or an unknown chart type
AddChartRejected(c, n) ==
    /\ c.op = "add_chart"
    /\ c.raised = "none"
    /\ (c.slide_index >= n \/ upper(c.chart_type) \notin ChartType)

\* C12: the value add_chart returns for an out-of-range index or an unknown
\* chart type differs from the value a successful add_chart returns: of two
\* calls in a row, the first successful and the second rejected, the caller
\* gets two different results.
C12_AddChartResultTellsFailure ==
    [][(AddChartSucceeded(call) /\ AddChartRejected(call', Len(slides)))
        => call'.ret # call.ret]_vars

-----------------------------------------------------------------------------
(* Properties of generate_chart, checked under SpecChart *)

\* the values of the ChartType enum
ChartTypeValues ==
    {<<"b", "a", "r">>, <<"l", "i", "n", "e">>, <<"p", "i", "e">>,
     <<"s", "c", "a", "t", "t", "e", "r">>,
     <<"h", "i", "s", "t", "o", "g", "r", "a", "m">>,
     <<"b", "o", "x">>, <<"a", "r", "e", "a">>}

StyledThemes == {"default", "business", "minimal"}

\* C13: generate_chart returns a non-empty descriptor exactly when the
\* chart type is, letter case aside, one of the seven type names, whatever
\* the theme; the descriptor carries the theme as given and, as its style,
\* the style-table entry of the theme when the theme is default, business or
\* minimal and the entry of 'default' for any other theme.
C13_ChartTypeAndTheme ==
    charts # <<>> =>
        /\ charts[1] # EmptyDict
               <=> lower(chart_request.chart_type) \in ChartTypeValues
        /\ charts[1] # EmptyDict =>
               /\ charts[1].theme = chart_request.theme
               /\ charts[1].style =
                      IF chart_request.theme \in StyledThemes
                      THEN chart_styles[chart_request.theme]
                      ELSE chart_styles["default"]

\* a mixed-case type name under a theme the style table does not have
C13_Witness ==
    /\ charts # <<>>
    /\ chart_request.chart_type = <<"h", "i", "s", "t", "o", "G", "R", "A", "M">>
    /\ chart_request.theme = "dark"
    /\ charts[1] # EmptyDict
    /\ charts[1].style = chart_styles["default"]
    /\ charts[1].style # chart_styles["business"]

\* a type name one letter longer than a known one, under a known theme
C13_WitnessUnknownType ==
    /\ charts # <<>>
    /\ chart_request.chart_type = <<"p", "i", "e", "s">>
    /\ chart_request.theme = "business"
    /\ charts[1] = EmptyDict

\* C18: every non-empty chart descriptor on a slide of the deck has as its
\* type one of the seven enum values bar, line, pie, scatter, histogram, box,
\* area, whatever letter case add_chart was called with.
C18_ChartTypeNormalized ==
    \A k \in 1..Len(slides) :
        ("chart" \in DOMAIN slides[k] /\ slides[k].chart # EmptyDict)
            => slides[k].chart.type \in ChartTypeValues

\* C14: when create_from_text(title, sections, data_source, speaker_notes)
\* returns, the layout of every slide is what suggest_layout answers for
\* that slide, title_slide for slide 0 and bullet_points for every other
\* slide; metadata['title'] is the title; and every slide has speaker notes
\* when the flag is true and none has when it is false, whatever the deck
\* was before the call.
C14_CreatePostconditions ==
    [][call'.op = "create_from_text"
        => /\ call'.raised = "none"
           /\ slides'[1].layout = "title_slide"
           /\ \A k \in 2..Len(slides') : slides'[k].layout = "bullet_points"
           /\ \A k \in 1..Len(slides') :
                  /\ slides'[k].layout = suggest_layout(slides'[k])
                  /\ "speaker_notes" \in DOMAIN slides'[k] <=> call'.speaker_notes
           /\ "title" \in DOMAIN metadata'
           /\ metadata'.title = call'.title]_vars

\* create_from_text just returned a deck of two slides without notes, under
\* a title
C14_Witness ==
    /\ call.op = "create_from_text"
    /\ ~call.speaker_notes
    /\ call.title = <<"P", "l", "a", "n">>
    /\ metadata.title = <<"P", "l", "a", "n">>
    /\ Len(slides) = 2
    /\ \A k \in 1..2 : "speaker_notes" \notin DOMAIN slides[k]
    /\ slides[2].layout = "bullet_points"

\* create_from_text just returned a deck of two slides with their notes
C14_WitnessNotes ==
    /\ call.op = "create_from_text"
    /\ call.speaker_notes
    /\ Len(slides) = 2
    /\ \A k \in 1..2 : "speaker_notes" \in DOMAIN slides[k]

DeckOperations == {"create_from_text", "add_chart", "generate_speaker_notes"}

\* c and d record the same operation called with the same arguments
SameCall(c, d) ==
    /\ c.op = d.op
    /\ c.op \in DeckOperations
    /\ c.op = "create_from_text" =>
           /\ c.title = d.title
           /\ c.sections = d.sections
           /\ c.data_source = d.data_source
           /\ c.speaker_notes = d.speaker_notes
    /\ c.op = "add_chart" =>
           /\ c.slide_index = d.slide_index
           /\ c.chart_type = d.chart_type
           /\ c.data = d.data

\* C15: create_from_text, add_chart and generate_speaker_notes raise nothing
\* in any state, the state before any create_from_text included, and
\* calling one of them again with the arguments of the call just made
\* leaves slides and metadata as that call left them.
C15_IdempotentAndInvocable ==
    [][/\ call'.op \in DeckOperations => call'.raised = "none"
       /\ SameCall(call, call') => (slides' = slides /\ metadata' = metadata)]_vars

-----------------------------------------------------------------------------
(* Properties of create_from_text and its data source, checked under SpecData *)

\* C16: create_from_text raises nothing, and of two calls in a row with the
\* same title, sections and speaker-notes flag the second leaves the slides
\* and metadata the first left, whatever the data source of either call was
\* (none, loaded, served from the cache, unsupported, failing to load).
C16_DeckIgnoresDataSource ==
    [][call'.op = "create_from_text"
        => /\ call'.raised = "none"
           /\ (/\ call.op = "create_from_text"
               /\ call.title = call'.title
               /\ call.sections = call'.sections
               /\ call.speaker_notes = call'.speaker_notes)
                  => (slides' = slides /\ metadata' = metadata)]_vars

\* a deck of two slides made with a source served from the cache while
\* another source of the cache went unused
C16_Witness ==
    /\ call.op = "create_from_text"
    /\ call.fetch = "cached"
    /\ Cardinality(DOMAIN cached_data) = 2
    /\ Len(slides) = 2

\* a deck made with a source that failed to load
C16_WitnessFailed ==
    /\ call.op = "create_from_text"
    /\ call.fetch = "failed"
    /\ call.data_source = Some(<<"d", ".", "c", "s", "v">>)
    /\ Len(slides) = 2

\* a deck made with a source that loaded
C16_WitnessLoaded ==
    /\ call.op = "create_from_text"
    /\ call.fetch = "loaded"
    /\ call.data_source[1] \in DOMAIN cached_data
    /\ Len(slides) = 2

-----------------------------------------------------------------------------
(* Properties of the advisor's validation, checked under SpecAdvice *)

\* the required elements of a catalog layout that are not keys of a content,
\* in the layout's order
MissingElements(content, layout_name) ==
    LET absent(element) == element \notin DOMAIN content
    IN  SelectSeq(layouts[layout_name].elements, absent)

\* what the advisor's answers have to be for a request
AdviceAsClaimed(answers, request) ==
    LET known == request.layout_name \in LayoutCatalogNames
        content == IF "content" \in DOMAIN request.slide
                   THEN request.slide.content ELSE EmptyDict
    IN  /\ "validate" \in DOMAIN answers =>
               answers.validate =
                   IF known /\ MissingElements(request.content, request.layout_name) = <<>>
                   THEN "True" ELSE "False"
        /\ "recommend" \in DOMAIN answers =>
               IF known
               THEN LET missing == MissingElements(content, request.layout_name)
                    IN  answers.recommend =
                            [i \in 1..Len(missing) |->
                                <<"Add ", missing[i], " to content">>]
               ELSE answers.recommend = <<>>
        /\ ({"validate", "recommend"} \subseteq DOMAIN answers /\ known) =>
               (answers.recommend = <<>> <=> answers.validate = "True")
        /\ "details" \in DOMAIN answers =>
               (answers.details = None <=> ~known)

\* C17: for a catalog layout, validate_content_for_layout is true exactly
\* when every required element of the layout is a key of the content, and
\* recommend_modifications returns one advisory string per required element
\* missing from the slide's content, in the layout's order, so it is empty
\* exactly when validation is true; for a name outside the catalog
\* validation is false, the recommendations are empty and get_layout_details
\* is None; and no call changes the content or the slide it was given.
C17_ValidateAndRecommend ==
    [][advice' # advice
        => (advised' = advised /\ AdviceAsClaimed(advice', advised))]_vars

\* a slide with a title and a right column asked about two_column: not
\* valid, one recommendation, for the left column
C17_Witness ==
    /\ {"validate", "recommend", "details"} \subseteq DOMAIN advice
    /\ advised.layout_name = "two_column"
    /\ DOMAIN advised.content = {"title", "right_column", "heading"}
    /\ advice.validate = "False"
    /\ advice.recommend = <<<<"Add ", "left_column", " to content">>>>

\* a content that fits image_and_text
C17_WitnessValid ==
    /\ {"validate", "recommend"} \subseteq DOMAIN advice
    /\ advised.layout_name = "image_and_text"
    /\ advice.validate = "True"
    /\ advice.recommend = <<>>

\* a full content asked about a name that is not in the catalog
C17_WitnessUnknownName ==
    /\ {"validate", "recommend", "details"} \subseteq DOMAIN advice
    /\ advised.layout_name = "Title Slide"
    /\ DOMAIN advised.content = AdvisedKeys
    /\ advice.validate = "False"
    /\ advice.recommend = <<>>
    /\ advice.details = None

-----------------------------------------------------------------------------
(* Properties of the speaker notes, checked under Spec *)

\* the reminder line of the notes
ReminderLine == Tail(NOTE_CHART)

HasReminder(notes) ==
    \E k \in DOMAIN LinesOf(notes) : LinesOf(notes)[k] = ReminderLine

\* a chart descriptor is attached to the slide
HasDescriptor(slide) == "chart" \in DOMAIN slide /\ slide.chart # EmptyDict

\* the notes have the line "Key points to discuss:" and after it one line
\* per bullet point, in order
ListsBullets(notes, bullet_points) ==
    \E p \in DOMAIN LinesOf(notes) :
        /\ LinesOf(notes)[p] = NOTE_KEY
        /\ p + Len(bullet_points) <= Len(LinesOf(notes))
        /\ \A i \in 1..Len(bullet_points) :
               LinesOf(notes)[p + i] = NOTE_BULLET \o bullet_points[i]

\* C19: when generate_speaker_notes returns, the notes of every slide have
\* the chart reminder line exactly when a chart descriptor is attached to
\* the slide, and list the slide's bullet points, one line each and in
\* order, after the line "Key points to discuss:"; and add_chart leaves the
\* notes of every slide as they were.
C19_NotesFollowCharts ==
    [][/\ call'.op = "generate_speaker_notes" =>
              \A k \in 1..Len(slides') :
                  /\ "speaker_notes" \in DOMAIN slides'[k]
                  /\ HasReminder(slides'[k].speaker_notes) <=> HasDescriptor(slides'[k])
                  /\ "bullet_points" \in DOMAIN slides'[k].content =>
                         ListsBullets(slides'[k].speaker_notes,
                                      slides'[k].content.bullet_points)
       /\ (call'.op = "add_chart" /\ call'.raised = "none") =>
              \A k \in 1..Len(slides) :
                  /\ "speaker_notes" \in DOMAIN slides'[k]
                         <=> "speaker_notes" \in DOMAIN slides[k]
                  /\ "speaker_notes" \in DOMAIN slides[k] =>
                         slides'[k].speaker_notes = slides[k].speaker_notes]_vars

\* C20: every slide of the deck create_from_text returns fits its layout:
\* validate_content_for_layout(slide.content, slide.layout) is true and
\* recommend_modifications(slide, slide.layout) is empty, for the title slide
\* and for every content slide.
C20_SlidesFitTheirLayout ==
    [][call'.op = "create_from_text"
        => \A k \in 1..Len(slides') :
               /\ validate_content_for_layout(slides'[k].content,
                                              slides'[k].layout) = "True"
               /\ recommend_modifications(slides'[k], slides'[k].layout) = <<>>]_vars

====
